---- MODULE Spec2Model ----
(***************************************************************************)
(* State-machine model of the eDive ingestion and validation pipeline:     *)
(*   src/Cleaning/cleaning.py       DataProcessor (type detector, format   *)
(*                                  reader, coercion-rule registry)        *)
(*   src/Validations/validations.py Validations_API / Validations_TAG      *)
(*                                  (check runner, result aggregate)       *)
(*   src/main.py                    the entry point                        *)
(*                                                                         *)
(* Four specifications share the variables below:                          *)
(*   SpecDetect  get_file_type applied to every bounded set of columns     *)
(*   SpecConv    get_converters and one coercion rule applied to a value   *)
(*   SpecRun     the constructor of a Validations_* object: run_methods    *)
(*   Spec        main.py: process_file, then the type detector call        *)
(***************************************************************************)
EXTENDS Naturals, Integers, Sequences, FiniteSets, TLC

VARIABLES
    \* ---- type detector (DataProcessor.get_file_type)
    columns,      \* df.columns of the table handed to get_file_type
    file_type,    \* DataProcessor.file_type
    det_pc,       \* "ready" | "returned" | "raised"
    det_ret,      \* the value get_file_type returned
    \* ---- coercion rules (DataProcessor.get_converters)
    conv_type,    \* the argument of get_converters
    conv_col,     \* the column the rule is looked up for
    conv_val,     \* the raw cell text handed to the rule
    conv_pc,      \* "ready" | "table" | "applied" | "raised"
    conv_out,     \* what the rule produced
    \* ---- check runner (Validations_*.run_methods)
    runner,       \* "API" | "TAG": which class is being constructed
    n,            \* len(methods)
    behaviour,    \* what each registered check does when it is called
    rows,         \* df_raw.shape[0]
    index,        \* position of the for loop
    output_dict,  \* self.output_dict: insertion-ordered <<key, record>> items
    invoked,      \* the indices whose method was called, in call order
    observed,     \* the table each called method was handed, in call order
    run_pc,       \* "loop" | "returned" | "raised"
    run_exc,      \* the exception that left run_methods, or "none"
    \* ---- entry point (main.py)
    file,         \* the picked file: path, header, cells, well-formedness
    main_pc,      \* "line8" | "line9" | "crashed"
    main_exc,     \* the exception that ended the script, or "none"
    df            \* the value bound to df at line 8

detVars  == <<columns, file_type, det_pc, det_ret>>
convVars == <<conv_type, conv_col, conv_val, conv_pc, conv_out>>
runVars  == <<runner, n, behaviour, rows, index, output_dict, invoked, observed, run_pc,
              run_exc>>
mainVars == <<file, main_pc, main_exc, df>>
vars     == <<detVars, convVars, runVars, mainVars>>

(***************************************************************************)
(* Column labels.  A pandas column label is a string or, for a header cell *)
(* that holds a number or a table built from an array of arrays, an int.   *)
(***************************************************************************)
StrLabel(s) == [type |-> "str", name |-> s]
IntLabel(s) == [type |-> "int", name |-> s]

LabelNames ==
    {"id_api_hit", "ID_API_HIT", "dt_transaction", "id_log", "Id_Log",
     "datacomp", "asin", "ASIN", "postal_code", "vl_totalspent"}

Labels == {StrLabel(s) : s \in LabelNames} \cup {IntLabel("0")}

\* str.lower() on the label names of the model
Lower(s) ==
    CASE s = "ID_API_HIT" -> "id_api_hit"
      [] s = "Id_Log"     -> "id_log"
      [] s = "ASIN"       -> "asin"
      [] s = ".CSV"       -> ".csv"
      [] s = ".Xlsx"      -> ".xlsx"
      [] s = ".TXT000"    -> ".txt000"
      [] OTHER            -> s

None == "None"

(***************************************************************************)
(* DataProcessor.get_file_type(self, df), cleaning.py 28-50.               *)
(* self_type is self.file_type on entry.  Line 38 calls col.lower() on     *)
(* every label; an int has no such attribute, and the AttributeError       *)
(* leaves the method before self.file_type is assigned.                    *)
(***************************************************************************)
GetFileType_TagFirst(self_type, cols) ==
    IF \E c \in cols : c.type # "str"
    THEN [raised |-> TRUE, exc |-> "AttributeError", file_type |-> self_type, ret |-> None]
    ELSE LET low == {Lower(c.name) : c \in cols}
             t   == IF "id_log" \in low \/ "datacomp" \in low THEN "TAG"
                    ELSE IF "id_api_hit" \in low \/ "dt_transaction" \in low THEN "API"
                    ELSE IF "asin" \in low \/ "postal_code" \in low THEN "AMAZON"
                    ELSE None
         IN  [raised |-> FALSE, exc |-> "none", file_type |-> t, ret |-> t]

GetFileType(self_type, cols) ==
    IF \E c \in cols : c.type # "str"
    THEN [raised |-> TRUE, exc |-> "AttributeError", file_type |-> self_type, ret |-> None]
    ELSE LET low == {Lower(c.name) : c \in cols}
             t   == IF "id_api_hit" \in low \/ "dt_transaction" \in low THEN "API"
                    ELSE IF "id_log" \in low \/ "datacomp" \in low THEN "TAG"
                    ELSE IF "asin" \in low \/ "postal_code" \in low THEN "AMAZON"
                    ELSE None
         IN  [raised |-> FALSE, exc |-> "none", file_type |-> t, ret |-> t]

(***************************************************************************)
(* DataProcessor.get_converters(self, type), cleaning.py 116-238.          *)
(* A rule is named by the callable the table holds for the column:         *)
(*   "str"          str                                                    *)
(*   "to_numeric"   lambda x: pd.to_numeric(x, errors='coerce')            *)
(*   "to_datetime"  lambda x: pd.to_datetime(x, errors='coerce')           *)
(*   "float"        float                                                  *)
(***************************************************************************)
TAGConverters ==
    [
     id_log |-> "str", carrinho |-> "str", transactionid |-> "str",
     plataform |-> "str", storeid |-> "str", nm_brand |-> "str",
     nm_category_l5 |-> "str", ean |-> "str", nm_manufacturer |-> "str",
     mktsaleid |-> "str", productname |-> "str", sku |-> "str",
     nm_subbrand |-> "str", value |-> "str", zipcode |-> "str",
     gender |-> "str", productcondition |-> "str", quantity |-> "str",
     deliverytax |-> "to_numeric", deliverytime |-> "to_numeric", deliverytype |-> "to_numeric",
     parcels |-> "to_numeric", paymenttype |-> "to_numeric", cardflag |-> "to_numeric",
     invoiceemissor |-> "to_numeric", totalspent |-> "to_numeric", datacomp |-> "to_datetime",
     birthday |-> "to_datetime"
    ]

APIConverters ==
    [
     id_api_hit |-> "str", id_store |-> "str", id_transaction |-> "str",
     dt_transaction |-> "to_datetime", nm_platform |-> "str", nm_gender |-> "str",
     cd_zipcode |-> "str", qt_parcel |-> "to_numeric", vl_totalspent |-> "to_numeric",
     cd_paymenttype |-> "to_numeric", cd_cardflag |-> "to_numeric", cd_invoiceemissor |-> "to_numeric",
     nm_age |-> "to_numeric", nm_birthday |-> "to_datetime", nm_lastmile |-> "to_numeric",
     id_log |-> "str", dt_process_header |-> "to_datetime", dt_process_detail |-> "to_datetime",
     dt_import |-> "to_datetime", cd_sku |-> "str", cd_ean |-> "str",
     nm_product |-> "str", vl_product |-> "to_numeric", qt_product |-> "to_numeric",
     cd_productcondition |-> "to_numeric", nm_deliverytype |-> "to_numeric", vl_deliverytax |-> "to_numeric",
     qt_deliverytime |-> "to_numeric", nm_mktsaleid |-> "str", nm_model |-> "str",
     nm_manufacturer |-> "str", nm_brand |-> "str", nm_subbrand |-> "str",
     nm_catl1 |-> "str", nm_catl2 |-> "str", nm_catl3 |-> "str",
     nm_catl4 |-> "str", nm_catl5 |-> "str", tx_fulldescription |-> "str",
     tx_fullpath |-> "str", cd_pack |-> "to_numeric", cd_promo |-> "to_numeric",
     cd_ownbrand |-> "to_numeric", cd_intll |-> "to_numeric", nm_origin |-> "str"
    ]

AMAZONConverters ==
    [
     asin |-> "str", ean1 |-> "str", dest_country |-> "str",
     item_name |-> "str", source_country |-> "str", date |-> "to_datetime",
     date_granularity |-> "str", business_group |-> "str", postal_code |-> "str",
     base_currency_code |-> "str", our_price |-> "float", distinct_order_count |-> "float",
     shipped_units |-> "float", shipped_sales |-> "float", shipped_sales_w_tax |-> "float",
     shipped_sales_after_discount |-> "float", shipped_sales_w_tax_after_discount |-> "float", promotion |-> "str"
    ]

SourceTypes == {"API", "TAG", "AMAZON"}

GetConverters(type) ==
    IF type = "TAG" THEN [raised |-> FALSE, exc |-> "none", table |-> TAGConverters]
    ELSE IF type = "API" THEN [raised |-> FALSE, exc |-> "none", table |-> APIConverters]
    ELSE IF type = "AMAZON" THEN [raised |-> FALSE, exc |-> "none", table |-> AMAZONConverters]
    ELSE [raised |-> TRUE, exc |-> "ValueError", table |-> [unknown |-> "none"]]

\* Raw cell texts a reader hands to a rule.
RawValues == {"12", "3.5", "abc", "", "2024-01-01"}

IsNumericText(v) == v \in {"12", "3.5"}
IsDateText(v)    == v = "2024-01-01"

Typed(kind, v) == [raised |-> FALSE, exc |-> "none", kind |-> kind, src |-> v]
Missing(v)     == [raised |-> FALSE, exc |-> "none", kind |-> "missing", src |-> v]
Raised(exc, v) == [raised |-> TRUE, exc |-> exc, kind |-> "none", src |-> v]

\* The callable of a rule applied to one cell text.  errors='coerce' turns
\* what cannot be parsed into NaN / NaT; the builtin float raises ValueError.
ApplyRule(rule, v) ==
    CASE rule = "str"         -> Typed("string", v)
      [] rule = "to_numeric"  -> IF IsNumericText(v) THEN Typed("number", v) ELSE Missing(v)
      [] rule = "to_datetime" -> IF IsDateText(v) THEN Typed("datetime", v) ELSE Missing(v)
      [] rule = "float"       -> IF IsNumericText(v) THEN Typed("number", v)
                                 ELSE Raised("ValueError", v)

(***************************************************************************)
(* Idle values: the variables a specification does not use stay at these.  *)
(***************************************************************************)
IdleDet ==
    /\ columns = {}
    /\ file_type = None
    /\ det_pc = "idle"
    /\ det_ret = None

IdleConv ==
    /\ conv_type = "none"
    /\ conv_col = "none"
    /\ conv_val = ""
    /\ conv_pc = "idle"
    /\ conv_out = Missing("")

IdleRun ==
    /\ runner = "none"
    /\ n = 0
    /\ behaviour = <<>>
    /\ rows = 0
    /\ index = 0
    /\ output_dict = <<>>
    /\ invoked = <<>>
    /\ observed = <<>>
    /\ run_pc = "idle"
    /\ run_exc = "none"

IdleMain ==
    /\ file = [stem |-> "", suffix |-> "", header |-> {}, cells |-> <<>>, wellformed |-> TRUE]
    /\ main_pc = "idle"
    /\ main_exc = "none"
    /\ df = [bound |-> FALSE, columns |-> {}, cells |-> <<>>, converters |-> "none"]

(***************************************************************************)
(* SpecDetect: a DataProcessor fresh from __init__ (file_type = None,      *)
(* cleaning.py 25-26) whose get_file_type is called on a table with any    *)
(* subset of the labels as its columns.                                    *)
(***************************************************************************)
InitDetect ==
    /\ columns \in SUBSET Labels
    /\ file_type = None
    /\ det_pc = "ready"
    /\ det_ret = None
    /\ IdleConv /\ IdleRun /\ IdleMain

DetectCall ==
    /\ det_pc = "ready"
    /\ LET r == GetFileType(file_type, columns)
       IN  /\ file_type' = r.file_type
           /\ det_ret' = r.ret
           /\ det_pc' = IF r.raised THEN "raised" ELSE "returned"
    /\ UNCHANGED <<columns, convVars, runVars, mainVars>>

NextDetect == DetectCall

SpecDetect == InitDetect /\ [][NextDetect]_vars

(***************************************************************************)
(* SpecConv: get_converters(type), then the rule of one column applied to  *)
(* one raw cell text, as pd.read_csv / pd.read_excel do per cell.          *)
(***************************************************************************)
ConvColumns(type) ==
    IF type \in SourceTypes THEN DOMAIN GetConverters(type).table ELSE {"asin"}

InitConv ==
    /\ conv_type \in SourceTypes \cup {"UNKNOWN"}
    /\ conv_col \in ConvColumns(conv_type)
    /\ conv_val \in RawValues
    /\ conv_pc = "ready"
    /\ conv_out = Missing("")
    /\ IdleDet /\ IdleRun /\ IdleMain

ConvLookup ==
    /\ conv_pc = "ready"
    /\ LET r == GetConverters(conv_type)
       IN  /\ conv_pc' = IF r.raised THEN "raised" ELSE "table"
           /\ conv_out' = IF r.raised THEN Raised(r.exc, conv_val) ELSE conv_out
    /\ UNCHANGED <<conv_type, conv_col, conv_val, detVars, runVars, mainVars>>

ConvApply ==
    /\ conv_pc = "table"
    /\ LET out == ApplyRule(GetConverters(conv_type).table[conv_col], conv_val)
       IN  /\ conv_out' = out
           /\ conv_pc' = IF out.raised THEN "raised" ELSE "applied"
    /\ UNCHANGED <<conv_type, conv_col, conv_val, detVars, runVars, mainVars>>

NextConv == ConvLookup \/ ConvApply

SpecConv == InitConv /\ [][NextConv]_vars

(***************************************************************************)
(* The check runner: Validations_API.run_methods (validations.py 230-286)  *)
(* and Validations_TAG.run_methods (38-104).                               *)
(*                                                                         *)
(* A registered method is what the list `methods` holds at a position:     *)
(* whether it can be called, whether it has a __name__, and that name.     *)
(* The API list holds 28 bound methods.  The TAG list (57-97) holds one    *)
(* element, a str: the method names sit inside a triple-quoted literal.    *)
(***************************************************************************)
APIMethodNames ==
    <<
      "columns_completness", "sales_validation", "paymenttype_validation",
      "totalspent_match_total", "zipcode_length", "duplicated_ids",
      "sales_validation_split", "platform_conformity", "value_conformity",
      "quantity_conformity", "totalspent_conformity", "deliverytax_conformity",
      "deliverytime_conformity", "deliverytype_conformity", "paymenttype_conformity",
      "total_rows", "total_columns", "first_day",
      "last_day", "missing_days", "cardflag_conformity",
      "invoiceemissor_conformity", "productcondition_conformity", "duplicated_all",
      "totalspent_threshold", "totalspent_outlier", "undefined_count",
      "marketplace_analysis"
    >>

APIMethods ==
    [i \in 1..Len(APIMethodNames) |->
        [callable |-> TRUE, has_name |-> TRUE, name |-> APIMethodNames[i]]]

TAGMethods ==
    << [callable |-> FALSE, has_name |-> FALSE, name |-> "<str literal>"] >>

MethodsOf(r) == IF r = "API" THEN APIMethods ELSE TAGMethods

\* Bounds of the model: the runner is explored on the first n <= MaxChecks
\* methods of a list, over tables of at most MaxRows rows.
MaxChecks == 3
MaxRows == 2

Min(a, b) == IF a <= b THEN a ELSE b

\* ---- self.output_dict: a dict keeps its items in insertion order
Keys(od) == {od[j][1] : j \in 1..Len(od)}
HasKey(od, k) == k \in Keys(od)
Get(od, k) == od[CHOOSE j \in 1..Len(od) : od[j][1] = k][2]

\* od[k] = v : an existing key keeps its place, a new key goes last
DictSet(od, k, v) ==
    IF HasKey(od, k)
    THEN [j \in 1..Len(od) |-> IF od[j][1] = k THEN <<k, v>> ELSE od[j]]
    ELSE Append(od, <<k, v>>)

SortedItems_Identity(od) == od

RECURSIVE SortedItems(_)
\* dict(sorted(od.items())): the items in ascending key order
SortedItems(od) ==
    IF od = <<>> THEN <<>>
    ELSE LET lo   == CHOOSE j \in 1..Len(od) : \A i \in 1..Len(od) : od[j][1] <= od[i][1]
             rest == [j \in 1..(Len(od) - 1) |-> IF j < lo THEN od[j] ELSE od[j + 1]]
         IN  <<od[lo]>> \o SortedItems(rest)

(***************************************************************************)
(* A check, called as method(df_raw).  The bodies of the checks are not    *)
(* part of the sources; a check follows the documented contract: on        *)
(* success it deposits its record under its own index, and it may raise,   *)
(* before or after having deposited.  A deposit may come out of turn: a    *)
(* check may write a provisional record into the slot of the check that    *)
(* follows it in the list, which that check overwrites in its own turn.    *)
(* What a check does is a function of the table, fixed for the run         *)
(* (behaviour).                                                            *)
(***************************************************************************)
CheckBehaviours == {"ok", "ok_ahead", "raise", "deposit_raise"}

Classifications == <<"Completeness", "Consistency", "Conformity", "Compliance", "Info">>

CheckClass(i) == Classifications[(i % Len(Classifications)) + 1]

NormalRecord(m, i, nrows) == <<m.name, nrows, "sample", CheckClass(i)>>

CheckError == [type |-> "KeyError", msg |-> "missing column"]

NoError == [type |-> "none", msg |-> ""]

ProvisionalRecord(m, nrows) == <<m.name, nrows, "provisional", "Info">>

\* the slot of the following check, where the explored list has one
AheadSlot(od, m, i, nrows, len) ==
    IF i + 1 < len THEN DictSet(od, i + 1, ProvisionalRecord(m, nrows)) ELSE od

\* the body of a check that can be called
CheckBody(m, i, beh, od, nrows, len) ==
    CASE beh = "ok" ->
            [raised |-> FALSE, od |-> DictSet(od, i, NormalRecord(m, i, nrows)), exc |-> NoError]
      [] beh = "ok_ahead" ->
            [raised |-> FALSE, exc |-> NoError,
             od |-> DictSet(AheadSlot(od, m, i, nrows, len), i, NormalRecord(m, i, nrows))]
      [] beh = "raise" ->
            [raised |-> TRUE, od |-> od, exc |-> CheckError]
      [] beh = "deposit_raise" ->
            [raised |-> TRUE, od |-> DictSet(od, i, NormalRecord(m, i, nrows)), exc |-> CheckError]

\* method(df_raw), lines 101 / 283: calling a str raises TypeError
CallCheck(m, i, beh, od, nrows, len) ==
    IF ~m.callable
    THEN [raised |-> TRUE, od |-> od,
          exc |-> [type |-> "TypeError", msg |-> "'str' object is not callable"]]
    ELSE CheckBody(m, i, beh, od, nrows, len)

ErrorRecord(m, nrows, e) == <<m.name, nrows, e.msg, "Error">>

\* The except clause (validations.py 102-103, 284-285).  The record is built
\* before it is stored: method.__name__ on an object without that attribute
\* raises AttributeError out of the handler, and nothing is stored.
Handler_NoDeposit(od, i, m, nrows, e) ==
    IF ~m.has_name
    THEN [raised |-> TRUE, exc |-> "AttributeError", od |-> od]
    ELSE [raised |-> FALSE, exc |-> "none", od |-> od]

Handler(od, i, m, nrows, e) ==
    IF ~m.has_name
    THEN [raised |-> TRUE, exc |-> "AttributeError", od |-> od]
    ELSE [raised |-> FALSE, exc |-> "none", od |-> DictSet(od, i, ErrorRecord(m, nrows, e))]

PassedTable_Slice(df_raw, i) == IF i > 0 /\ df_raw > 0 THEN df_raw - 1 ELSE df_raw

\* The argument of method(df_raw): the object bound to df_raw at line 56 /
\* 248, self.raw_data itself, in every iteration.  The runner reads only
\* the row count of the table, which stands for the table here.
PassedTable(df_raw, i) == df_raw

\* One pass of the try statement (99-103, 281-285)
TryCheck(m, i, beh, od, nrows, len) ==
    LET c == CallCheck(m, i, beh, od, PassedTable(nrows, i), len)
    IN  IF c.raised THEN Handler(c.od, i, m, nrows, c.exc)
        ELSE [raised |-> FALSE, exc |-> "none", od |-> c.od]

NextIndex_Retry(i) == i

\* enumerate(methods, start=0): the next position of the loop
NextIndex(i) == i + 1

(***************************************************************************)
(* SpecRun: the constructor has set output_dict = {} and raw_data = df     *)
(* (30-35, 222-226) and calls run_methods.                                 *)
(***************************************************************************)
InitRun ==
    /\ runner \in {"API", "TAG"}
    /\ n \in 1..Min(MaxChecks, Len(MethodsOf(runner)))
    /\ behaviour \in [1..n -> CheckBehaviours]
    /\ runner = "TAG" => behaviour = [i \in 1..n |-> "raise"]
    /\ rows \in 0..MaxRows
    /\ index = 0
    /\ output_dict = <<>>
    /\ invoked = <<>>
    /\ observed = <<>>
    /\ run_pc = "loop"
    /\ run_exc = "none"
    /\ IdleDet /\ IdleConv /\ IdleMain

\* One iteration of `for index, method in enumerate(methods, start=0)`; the
\* iteration that exhausts the list goes on to line 104 / 286, the sort.
RunIteration ==
    /\ run_pc = "loop"
    /\ index < n
    /\ LET m == MethodsOf(runner)[index + 1]
           t == TryCheck(m, index, behaviour[index + 1], output_dict, rows, n)
       IN  /\ invoked' = Append(invoked, index)
           /\ observed' = Append(observed, PassedTable(rows, index))
           /\ IF t.raised
              THEN /\ run_pc' = "raised"
                   /\ run_exc' = t.exc
                   /\ output_dict' = t.od
                   /\ index' = index
              ELSE /\ run_exc' = run_exc
                   /\ index' = NextIndex(index)
                   /\ IF NextIndex(index) = n
                      THEN /\ output_dict' = SortedItems(t.od)
                           /\ run_pc' = "returned"
                      ELSE /\ output_dict' = t.od
                           /\ run_pc' = run_pc
    /\ UNCHANGED <<runner, n, behaviour, rows, detVars, convVars, mainVars>>

NextRun == RunIteration

SpecRun == InitRun /\ [][NextRun]_vars

(***************************************************************************)
(* The format reader: DataProcessor.process_file, cleaning.py 52-114.      *)
(*                                                                         *)
(* A file is its path, split as os.path.splitext splits it (stem, suffix:  *)
(* the suffix is empty or starts with a period), its header labels, the    *)
(* raw texts of one column of cells, and whether its content parses.       *)
(***************************************************************************)
Suffixes == {".csv", ".CSV", ".xml", ".json", ".xls", ".Xlsx", ".txt000", ".TXT000", ".pdf", ""}

Paths == {[stem |-> "sample", suffix |-> x] : x \in Suffixes}
            \cup {[stem |-> "txt000", suffix |-> ""]}

Headers ==
    { {StrLabel("id_api_hit"), StrLabel("dt_transaction"), StrLabel("vl_totalspent")},
      {StrLabel("id_log"), StrLabel("datacomp")},
      {StrLabel("ID_API_HIT")},
      {StrLabel("vl_totalspent")},
      {StrLabel("asin"), StrLabel("postal_code")},
      {} }

CellTexts == {"", "abc"}

CellColumns == UNION {[1..k -> CellTexts] : k \in 0..MaxRows}

Files ==
    {[stem |-> p.stem, suffix |-> p.suffix, header |-> h, cells |-> c, wellformed |-> w] :
        p \in Paths, h \in Headers, c \in CellColumns, w \in BOOLEAN}

\* os.path.splitext(path)[1]
SplitExt(f) == f.suffix

NA == "<NA>"

ReplaceEmpty_Identity(cells) == cells

\* df.replace('', pd.NA), line 113
ReplaceEmpty(cells) == [i \in DOMAIN cells |-> IF cells[i] = "" THEN NA ELSE cells[i]]

Unbound == "<unbound>"

\* The header probe of the .csv and .xls/.xlsx branches (74-77, 99-102):
\* the local `converters` is assigned in neither branch of the if when no
\* label equals a marker; the labels are compared as they are spelled.
ProbeConverters(header) ==
    IF StrLabel("id_api_hit") \in header \/ StrLabel("dt_transaction") \in header THEN "API"
    ELSE IF StrLabel("id_log") \in header \/ StrLabel("datacomp") \in header THEN "TAG"
    ELSE Unbound

NoTable == [bound |-> FALSE, columns |-> {}, cells |-> <<>>, converters |-> "none"]

Table(f, conv) ==
    [bound |-> TRUE, columns |-> f.header, cells |-> f.cells, converters |-> conv]

Fails(exc) == [raised |-> TRUE, exc |-> exc, df |-> NoTable]

\* lines 113-114 on the table a branch has bound to df
Finish(t) ==
    IF ~t.bound THEN Fails("UnboundLocalError")
    ELSE [raised |-> FALSE, exc |-> "none",
          df |-> [t EXCEPT !.cells = ReplaceEmpty(t.cells)]]

\* The two-pass read of the .csv and spreadsheet branches
ReadWithProbe(f, emptyFails) ==
    IF ~f.wellformed THEN Fails("ParseFailure")
    ELSE IF emptyFails /\ f.header = {} THEN Fails("ParseFailure")
    ELSE IF ProbeConverters(f.header) = Unbound THEN Fails("UnboundLocalError")
    ELSE Finish(Table(f, ProbeConverters(f.header)))

ProcessFile(f) ==
    LET file_extension == Lower(SplitExt(f))
    IN  IF file_extension = ".csv" THEN ReadWithProbe(f, TRUE)
        ELSE IF file_extension = ".xml" \/ file_extension = ".json"
        THEN IF ~f.wellformed THEN Fails("ParseFailure") ELSE Finish(Table(f, "none"))
        ELSE IF file_extension \in {".xls", ".xlsx"} THEN ReadWithProbe(f, FALSE)
        ELSE IF file_extension = "txt000"
        THEN IF ~f.wellformed THEN Fails("ParseFailure") ELSE Finish(NoTable)
        ELSE Fails("ValueError")

(***************************************************************************)
(* Spec: main.py.  The picked file is the input; DataProcessor is built on *)
(* its path (line 6).  Line 8 binds df or ends the script with the         *)
(* exception of process_file.  Line 9 calls get_file_type through the      *)
(* class, DataProcessor.get_file_type(df=df): no instance is bound to      *)
(* self, the call raises TypeError before the body runs, and lines 12-21   *)
(* (the dispatch to Validations_API / Validations_TAG) are never reached.  *)
(***************************************************************************)
AfterProcessFile_Swallow(r) == "line9"

\* where main goes after line 8: an exception is not caught
AfterProcessFile(r) == IF r.raised THEN "crashed" ELSE "line9"

\* DataProcessor.get_file_type(df=df), line 9
ClassCall(table) == [raised |-> TRUE, exc |-> "TypeError"]

InitMain ==
    /\ file \in Files
    /\ main_pc = "line8"
    /\ main_exc = "none"
    /\ df = NoTable
    /\ IdleDet /\ IdleConv /\ IdleRun

MainProcessFile ==
    /\ main_pc = "line8"
    /\ LET r == ProcessFile(file)
       IN  /\ main_pc' = AfterProcessFile(r)
           /\ main_exc' = r.exc
           /\ df' = r.df
    /\ UNCHANGED <<file, detVars, convVars, runVars>>

MainGetFileType ==
    /\ main_pc = "line9"
    /\ LET r == ClassCall(df)
       IN  /\ main_pc' = IF r.raised THEN "crashed" ELSE "line12"
           /\ main_exc' = IF main_exc = "none" THEN r.exc ELSE main_exc
    /\ UNCHANGED <<file, df, detVars, convVars, runVars>>

Next == MainProcessFile \/ MainGetFileType

Init == InitMain

Spec == Init /\ [][Next]_vars

(***************************************************************************)
(*                       Properties of the check runner                    *)
(***************************************************************************)
MethodAt(k) == MethodsOf(runner)[k + 1]

\* the check at index k raises when it is called on its own
RaisesAlone(k) == CallCheck(MethodAt(k), k, behaviour[k + 1], <<>>, rows, n).raised

Invoked == {invoked[j] : j \in 1..Len(invoked)}

\* C1: once run_methods has returned, output_dict has exactly the keys
\* 0..n-1, one item per registered check, whichever checks raised.
C1_KeySetComplete ==
    run_pc = "returned" =>
        /\ Keys(output_dict) = 0..(n - 1)
        /\ Len(output_dict) = n

\* C1 witness: a completed run of three checks of which one raised without
\* a deposit, one raised after its deposit and one succeeded.
C1_Witness ==
    /\ run_pc = "returned"
    /\ n = MaxChecks
    /\ \E i, j, k \in 1..n :
          behaviour[i] = "raise" /\ behaviour[j] = "ok" /\ behaviour[k] = "deposit_raise"
    /\ Keys(output_dict) = 0..(n - 1)

\* C2: if the check at index k raised, the record at k is classified
\* "Error", and once the run is over the neighbours k-1 and k+1 that succeed
\* on their own hold their normal records.
C2_ErrorIsolated ==
    \A k \in Invoked :
        RaisesAlone(k) =>
            /\ HasKey(output_dict, k)
            /\ Get(output_dict, k)[4] = "Error"
            /\ run_pc # "loop" =>
                  \A j \in {k - 1, k + 1} \cap (0..(n - 1)) :
                      ~RaisesAlone(j) =>
                          /\ HasKey(output_dict, j)
                          /\ Get(output_dict, j) = NormalRecord(MethodAt(j), j, rows)

\* C3: every registered check is invoked exactly once in list order, a
\* raising check stops no later one, and run_methods returns normally.
C3_AllInvokedInOrder ==
    /\ invoked = [j \in 1..Len(invoked) |-> j - 1]
    /\ run_pc # "raised"
    /\ run_pc = "returned" => Len(invoked) = n

\* C4: a check that raised has, at its own index, the record
\* (name, row count of the table, error text, "Error").
C4_ErrorRecordShape ==
    \A k \in Invoked :
        RaisesAlone(k) =>
            /\ HasKey(output_dict, k)
            /\ Get(output_dict, k) = <<MethodAt(k).name, rows, CheckError.msg, "Error">>

(***************************************************************************)
(*                       Properties of the type detector                   *)
(***************************************************************************)
HasMarker(cols, markers) == \E c \in cols : c.type = "str" /\ Lower(c.name) \in markers

AllStrings(cols) == \A c \in cols : c.type = "str"

\* C5: on column names compared without regard to case, get_file_type
\* returns the first match of API (id_api_hit, dt_transaction), TAG (id_log,
\* datacomp), AMAZON (asin, postal_code), and None (UNKNOWN) without match.
C5_PriorityOrder ==
    (det_pc # "ready" /\ AllStrings(columns)) =>
        /\ det_pc = "returned"
        /\ file_type = det_ret
        /\ HasMarker(columns, {"id_api_hit", "dt_transaction"}) => det_ret = "API"
        /\ (/\ ~HasMarker(columns, {"id_api_hit", "dt_transaction"})
            /\ HasMarker(columns, {"id_log", "datacomp"})) => det_ret = "TAG"
        /\ (/\ ~HasMarker(columns, {"id_api_hit", "dt_transaction"})
            /\ ~HasMarker(columns, {"id_log", "datacomp"})
            /\ HasMarker(columns, {"asin", "postal_code"})) => det_ret = "AMAZON"
        /\ (/\ ~HasMarker(columns, {"id_api_hit", "dt_transaction"})
            /\ ~HasMarker(columns, {"id_log", "datacomp"})
            /\ ~HasMarker(columns, {"asin", "postal_code"})) => det_ret = None

\* C5 witness: columns that carry markers of all three types, the API and
\* TAG ones in upper or mixed case, are classified API.
C5_Witness ==
    /\ det_pc = "returned"
    /\ {StrLabel("ID_API_HIT"), StrLabel("Id_Log"), StrLabel("asin")} \subseteq columns
    /\ StrLabel("id_api_hit") \notin columns
    /\ StrLabel("dt_transaction") \notin columns
    /\ det_ret = "API"

\* C6: get_file_type never raises: for every table it returns a Source
\* Type, and None (UNKNOWN) when no marker matches.
C6_NeverRaises ==
    det_pc # "ready" =>
        /\ det_pc = "returned"
        /\ det_ret \in SourceTypes \cup {None}
        /\ (/\ ~HasMarker(columns, {"id_api_hit", "dt_transaction"})
            /\ ~HasMarker(columns, {"id_log", "datacomp"})
            /\ ~HasMarker(columns, {"asin", "postal_code"})) => det_ret = None

(***************************************************************************)
(*                 Properties of the format reader and of main             *)
(***************************************************************************)
IngestFailed == main_pc # "line8" /\ ~df.bound

\* C7: a failure of process_file (unsupported extension, parse failure) ends
\* the run there: no later statement of main runs, no check is invoked and
\* no result aggregate is created.
C7_IngestFailureAborts ==
    IngestFailed =>
        /\ main_pc = "crashed"
        /\ main_exc \in {"ValueError", "ParseFailure", "UnboundLocalError"}
        /\ ~ENABLED Next
        /\ run_pc = "idle"
        /\ invoked = <<>>
        /\ output_dict = <<>>

\* C7 witness: a .pdf file, and a file that does not parse, have ended main
\* at line 8.
C7_Witness ==
    /\ main_pc = "crashed"
    /\ ~df.bound
    /\ \/ file.suffix = ".pdf" /\ main_exc = "ValueError"
       \/ ~file.wellformed /\ main_exc = "ParseFailure"

\* the file carries the txt000 marker as its extension
IsTxt000(f) == Lower(f.suffix) = ".txt000" \/ (f.stem = "txt000" /\ f.suffix = "")

ClaimedSupported(f) ==
    Lower(f.suffix) \in {".csv", ".xml", ".json", ".xls", ".xlsx"} \/ IsTxt000(f)

\* a file that parses and, where the header is probed, shows a marker
WellFormedInput(f) ==
    /\ f.wellformed
    /\ Lower(f.suffix) \in {".csv", ".xls", ".xlsx"} =>
          \E c \in f.header : c.name \in {"id_api_hit", "dt_transaction", "id_log", "datacomp"}

\* C8: process_file returns a table exactly for .csv, .xml, .json, .xls,
\* .xlsx and txt000 files, and fails with the unsupported-format error for
\* every other extension.
C8_SupportedExtensions ==
    main_pc # "line8" =>
        IF ClaimedSupported(file)
        THEN WellFormedInput(file) => df.bound
        ELSE ~df.bound /\ main_exc = "ValueError"

NoSignature(header) ==
    /\ ~HasMarker(header, {"id_api_hit", "dt_transaction"})
    /\ ~HasMarker(header, {"id_log", "datacomp"})
    /\ ~HasMarker(header, {"asin", "postal_code"})

\* C9: for a file of a supported format that parses and whose columns match
\* no signature, the run ends without an exception, in the outcome "no
\* schema matched".
C9_NoSchemaIsNotAnError ==
    (/\ main_pc = "crashed"
     /\ file.wellformed
     /\ file.header # {}
     /\ Lower(file.suffix) \in {".csv", ".xml", ".json", ".xls", ".xlsx"}
     /\ NoSignature(file.header)) => main_exc = "none"

(***************************************************************************)
(*                     Properties of the coercion rules                    *)
(***************************************************************************)
NumericRules == {"to_numeric", "float"}

\* C10: in the API, TAG and AMAZON tables, a numeric rule applied to a
\* non-numeric text yields the missing marker and does not raise.
C10_NumericCoerces ==
    (/\ conv_pc \in {"applied", "raised"}
     /\ conv_type \in SourceTypes
     /\ GetConverters(conv_type).table[conv_col] \in NumericRules
     /\ ~IsNumericText(conv_val)) =>
        /\ conv_pc = "applied"
        /\ conv_out = Missing(conv_val)

(***************************************************************************)
(*            Properties of the header probe and of the normalization      *)
(***************************************************************************)
ProbedFormats == {".csv", ".xls", ".xlsx"}

\* C11: for a delimited-text or spreadsheet file, the coercion table chosen
\* by the header probe of process_file is the table of the Source Type that
\* get_file_type returns for the same header, in any letter case and for
\* API, TAG and AMAZON.
C11_ProbeAgreesWithDetector ==
    (/\ main_pc # "line8"
     /\ file.wellformed
     /\ Lower(SplitExt(file)) \in ProbedFormats
     /\ GetFileType(None, file.header).ret \in SourceTypes) =>
        /\ df.bound
        /\ df.converters = GetFileType(None, file.header).ret

Range(q) == {q[j] : j \in 1..Len(q)}

\* The state of check k.  A check is Running only inside the iteration that
\* calls it, which is one step: between steps it is Pending or terminal.
CheckState(k, inv) ==
    IF k \notin Range(inv) THEN "Pending"
    ELSE IF RaisesAlone(k) THEN "Failed" ELSE "Succeeded"

\* the terminal state of check k is in the aggregate: an Error record for a
\* failed check, another record for one that succeeded
Recorded(k, od) ==
    /\ HasKey(od, k)
    /\ (Get(od, k)[4] = "Error") <=> RaisesAlone(k)

C13_Step ==
    /\ \A k \in 0..(n - 1) :
          /\ CheckState(k, invoked) # "Pending" => CheckState(k, invoked') = CheckState(k, invoked)
          /\ (CheckState(k, invoked) = "Pending" /\ CheckState(k, invoked') # "Pending") => k = index
          /\ (CheckState(k, invoked) # "Pending" /\ Recorded(k, output_dict))
                => Recorded(k, output_dict')
    /\ Len(invoked') = Cardinality(Range(invoked'))
    /\ run_pc' = "returned" =>
          \A k \in 0..(n - 1) :
              CheckState(k, invoked') # "Pending" /\ Recorded(k, output_dict')

\* C13: a check leaves Pending only in its own turn, for Succeeded or
\* Failed; it is called once, it keeps its terminal state and its record,
\* and when run_methods returns every check is terminal and recorded.
C13_CheckLifecycle == [][C13_Step]_vars

\* C13 witness: a returned run in which a check failed and one succeeded.
C13_Witness ==
    /\ run_pc = "returned"
    /\ \E j, k \in 0..(n - 1) :
          /\ CheckState(j, invoked) = "Failed" /\ Recorded(j, output_dict)
          /\ CheckState(k, invoked) = "Succeeded" /\ Recorded(k, output_dict)

\* C14: once run_methods has returned, the items of output_dict are in
\* strictly ascending key order, in whatever order they were deposited.
C14_AscendingOrder ==
    run_pc = "returned" =>
        \A j \in 1..(Len(output_dict) - 1) : output_dict[j][1] < output_dict[j + 1][1]

\* C14 witness: a returned run whose first check deposited into the slot of
\* the second before its own, so that key 1 was inserted before key 0.
C14_Witness ==
    /\ run_pc = "returned"
    /\ n >= 2
    /\ behaviour[1] = "ok_ahead"
    /\ output_dict[1][1] = 0

\* C15: every called check was handed the same table, the one the run
\* started with, and the row count of every Error record is that table's.
C15_SameTable ==
    /\ \A i, j \in 1..Len(observed) : observed[i] = observed[j]
    /\ \A i \in 1..Len(observed) : observed[i] = rows
    /\ \A k \in Keys(output_dict) :
          Get(output_dict, k)[4] = "Error" =>
              \A i \in 1..Len(observed) : Get(output_dict, k)[2] = observed[i]

\* C15 witness: a returned run over a non-empty table in which two checks
\* were called and an Error record was written.
C15_Witness ==
    /\ run_pc = "returned"
    /\ rows > 0
    /\ Len(observed) >= 2
    /\ \E k \in Keys(output_dict) : Get(output_dict, k)[4] = "Error"

\* what the called check itself left in the aggregate, before the runner
\* handles its outcome
AfterCall == CallCheck(MethodAt(index), index, behaviour[index + 1], output_dict, rows, n)

C16_Step ==
    (run_pc = "loop" /\ index < n) =>
        /\ Keys(output_dict') = Keys(AfterCall.od) \cup (IF AfterCall.raised THEN {index} ELSE {})
        /\ \A j \in Keys(AfterCall.od) \ {index} :
              Get(output_dict', j) = Get(AfterCall.od, j)
        /\ AfterCall.raised =>
              /\ HasKey(output_dict', index)
              /\ Get(output_dict', index) = ErrorRecord(MethodAt(index), rows, AfterCall.exc)
        /\ (~AfterCall.raised /\ HasKey(AfterCall.od, index)) =>
              Get(output_dict', index) = Get(AfterCall.od, index)

\* C16: in every iteration, the final sort included, the runner writes only
\* at the index of a check that raised: there it puts the Error record in
\* place of what the check had deposited, and every other record stays.
C16_HandlerFrame == [][C16_Step]_vars

====
